---- MODULE Spec2Model ----
(***************************************************************************)
(* A model of src/components/ImageProcessor.tsx: the watermark locator,    *)
(* the alpha map builder, the box blur, the border-sampling inpainter, the *)
(* alpha-map-guided neighbour sampling and the process() handler that      *)
(* drives them on the component's one canvas.                              *)
(*                                                                         *)
(* Pixel buffers are the flat RGBA byte arrays of the code: a function     *)
(* from 0..4*w*h-1 to 0..255, pixel (row, col) at index (row*w + col)*4.   *)
(* An opacity of the alpha map is kept as its numerator n over 255         *)
(* (the code stores n / 255.0).  Weights 1/dist^2 are exact rationals.     *)
(***************************************************************************)
EXTENDS Integers, Sequences, FiniteSets, TLC

VARIABLES
    loc,        \* SpecLocate: the locator's input and output
    bb,         \* SpecBlur: a region buffer blurred twice
    core,       \* SpecCore: one core operation, its arguments and its output
    alphaLoad,  \* SpecAlphaLoad: one call of loadAlphaMap
    imageLoad,  \* SpecImageLoad: one call of loadImageToCanvas
    original,   \* the picture before the logo was blended over it
    imageSrc,   \* the picture process() loads: [width, height, data]
    assets,     \* the reference assets /bg_48.png and /bg_96.png, by logo size
    settings,   \* the component's settings prop
    canvas,     \* canvasRef.current: [width, height, data]
    pc,         \* per invocation of process(): where it is suspended
    local,      \* per invocation: its local variables (width, height, info, alphaMap)
    ran,        \* per invocation: the strategies it has applied, in order
    result      \* per invocation: what it handed to onProcessed

vars == <<loc, bb, core, alphaLoad, imageLoad, original, imageSrc, assets, settings, canvas, pc, local, ran, result>>

----------------------------------------------------------------------------
(* Bounds of the model *)

\* the pixel model's stand-in for the 1024 of line 46
LargeLimit == 4
\* the pixel model's stand-in for the small logo's 48 (line 47)
SmallSize == 3
\* the pixel model's stand-in for the margins 32 and 64 (line 48)
SmallMargin == 1
\* the pixel model's stand-in for the large logo's 96 (line 47)
LargeSize == SmallSize + 1
LargeMargin == SmallMargin

(* Program constants *)
LARGE_LIMIT == 1024
LARGE_SIZE == 96
SMALL_SIZE == 48
LARGE_MARGIN == 64
SMALL_MARGIN == 32

----------------------------------------------------------------------------
(* Arithmetic helpers *)

Min2(a, b) == IF a < b THEN a ELSE b
Max2(a, b) == IF a > b THEN a ELSE b
Abs(a) == IF a < 0 THEN -a ELSE a

\* floor(a / b) for b > 0 and any integer a
FloorDiv(a, b) == IF a >= 0 THEN a \div b ELSE -((-a + b - 1) \div b)

RECURSIVE Gcd(_, _)
Gcd(a, b) == IF b = 0 THEN a ELSE Gcd(b, a % b)

Lcm(a, b) == (a \div Gcd(a, b)) * b

----------------------------------------------------------------------------
(* Watermark Locator *)

\* a mutant: || for && in isLarge
WatermarkInfoEitherLarge(width, height, limit, largeSize, largeMargin, smallSize, smallMargin) ==
    LET isLarge == width > limit \/ height > limit
        size == IF isLarge THEN largeSize ELSE smallSize
        margin == IF isLarge THEN largeMargin ELSE smallMargin
    IN  [size |-> size,
         x |-> width - margin - size,
         y |-> height - margin - size,
         width |-> size,
         height |-> size]

\* the body of getWatermarkInfo, its five literals as parameters
WatermarkInfo(width, height, limit, largeSize, largeMargin, smallSize, smallMargin) ==
    LET isLarge == width > limit /\ height > limit
        size == IF isLarge THEN largeSize ELSE smallSize
        margin == IF isLarge THEN largeMargin ELSE smallMargin
    IN  [size |-> size,
         x |-> width - margin - size,
         y |-> height - margin - size,
         width |-> size,
         height |-> size]

\* getWatermarkInfo as the code has it
getWatermarkInfo(width, height) ==
    WatermarkInfo(width, height, LARGE_LIMIT, LARGE_SIZE, LARGE_MARGIN, SMALL_SIZE, SMALL_MARGIN)

\* getWatermarkInfo on the pixel model's scaled-down geometry
getWatermarkInfoScaled(width, height) ==
    WatermarkInfo(width, height, LargeLimit, LargeSize, LargeMargin, SmallSize, SmallMargin)

\* image dimensions around every case of the locator
LocDims == {1, 47, 79, 80, 500, 1023, 1024, 1025, 1184, 2048}

NoLoc == [width |-> 0, height |-> 0, called |-> FALSE, info |-> WatermarkInfo(0, 0, 0, 0, 0, 0, 0)]

LocInit == \E w \in LocDims, h \in LocDims :
    loc = [width |-> w, height |-> h, called |-> FALSE, info |-> NoLoc.info]

Locate ==
    /\ ~loc.called
    /\ loc' = [loc EXCEPT !.called = TRUE, !.info = getWatermarkInfo(loc.width, loc.height)]

----------------------------------------------------------------------------
(* The canvas: [width, height, data], data the RGBA bytes row by row *)

\* f itself; comparing a function makes TLC tabulate it once, so that later
\* reads do not recompute the expression that defines it
Tabulated(f) == IF f = f THEN f ELSE f

RECURSIVE SumRange(_, _, _)
\* the sum of F(k) for k in lo..hi, halving the range to keep the evaluation shallow
SumRange(F(_), lo, hi) ==
    IF lo > hi THEN 0
    ELSE IF lo = hi THEN F(lo)
    ELSE SumRange(F, lo, (lo + hi) \div 2) + SumRange(F, (lo + hi) \div 2 + 1, hi)

\* nearest integer of num/den (den > 0), ties to the even one
RoundHalfEven(num, den) ==
    LET q == FloorDiv(num, den)
        rem == num - q * den
    IN  IF 2 * rem < den THEN q
        ELSE IF 2 * rem > den THEN q + 1
        ELSE IF q % 2 = 0 THEN q ELSE q + 1

\* what storing the number num/den into a Uint8ClampedArray keeps
ToUint8Clamped(num, den) == Min2(255, Max2(0, RoundHalfEven(num, den)))

\* ctx.getImageData(x, y, w, h).data: transparent black outside the canvas
getImageData(cv, x, y, w, h) == Tabulated(
    [i \in 0..(4 * w * h - 1) |->
        LET row == (i \div 4) \div w
            col == (i \div 4) % w
            absRow == y + row
            absCol == x + col
        IN  IF absRow >= 0 /\ absRow < cv.height /\ absCol >= 0 /\ absCol < cv.width
            THEN cv.data[(absRow * cv.width + absCol) * 4 + (i % 4)]
            ELSE 0])

\* ctx.putImageData(imageData, x, y) for a w x h buffer: the canvas afterwards
putImageData(cv, data, x, y, w, h) ==
    [cv EXCEPT !.data = Tabulated(
        [j \in DOMAIN cv.data |->
            LET row == ((j \div 4) \div cv.width) - y
                col == ((j \div 4) % cv.width) - x
            IN  IF row >= 0 /\ row < h /\ col >= 0 /\ col < w
                THEN data[(row * w + col) * 4 + (j % 4)]
                ELSE cv.data[j]])]

----------------------------------------------------------------------------
(* Box Blur Filter *)

\* a mutant: count starts at 1 instead of 0
BlurPassCountOff(src, w, h, r) == Tabulated(
    [i \in DOMAIN src |->
        LET py == (i \div 4) \div w
            px == (i \div 4) % w
            sum == SumRange(LAMBDA ky :
                       SumRange(LAMBDA kx :
                           LET nx == Min2(Max2(px + kx, 0), w - 1)
                               ny == Min2(Max2(py + ky, 0), h - 1)
                           IN  src[(ny * w + nx) * 4 + (i % 4)],
                           -r, r),
                       -r, r)
            count == (2 * r + 1) * (2 * r + 1) + 1
        IN  ToUint8Clamped(sum, count)])

\* r of line 208
BlurRadius(radius, passes) == Max2(1, radius \div passes)

\* count when the kernel loops of lines 213-224 end: one per (ky, kx)
BlurCount(r) == (2 * r + 1) * (2 * r + 1)

\* one pass of applyBoxBlur over the snapshot src: the dst buffer (lines 210-231)
BlurPass(src, w, h, r) == Tabulated(
    [i \in DOMAIN src |->
        LET py == (i \div 4) \div w
            px == (i \div 4) % w
            sum == SumRange(LAMBDA ky :
                       SumRange(LAMBDA kx :
                           LET nx == Min2(Max2(px + kx, 0), w - 1)
                               ny == Min2(Max2(py + ky, 0), h - 1)
                           IN  src[(ny * w + nx) * 4 + (i % 4)],
                           -r, r),
                       -r, r)
        IN  ToUint8Clamped(sum, BlurCount(r))])

RECURSIVE applyBoxBlurFrom(_, _, _, _, _, _, _, _)
\* the passes p, p+1, ..., passes-1 of applyBoxBlur
applyBoxBlurFrom(cv, x, y, w, h, radius, passes, p) ==
    IF p >= passes THEN cv
    ELSE LET src == getImageData(cv, x, y, w, h)
             r == BlurRadius(radius, passes)
             dst == BlurPass(src, w, h, r)
         IN  applyBoxBlurFrom(putImageData(cv, dst, x, y, w, h), x, y, w, h, radius, passes, p + 1)

\* a mutant: the blurred rectangle is one pixel wider on every side
applyBoxBlurAround(cv, x, y, w, h, radius, passes) ==
    applyBoxBlurFrom(cv, x - 1, y - 1, w + 2, h + 2, radius, passes, 0)

\* applyBoxBlur(ctx, x, y, w, h, radius, passes): the canvas afterwards
applyBoxBlur(cv, x, y, w, h, radius, passes) ==
    applyBoxBlurFrom(cv, x, y, w, h, radius, passes, 0)

----------------------------------------------------------------------------
(* SpecBlur: applyBoxBlur applied twice to the same region *)

\* region sizes and (radius, passes) pairs, among them process()'s (3, 2)
BlurShapes == {<<2, 2>>, <<3, 3>>}
BlurParams == {<<2, 1>>, <<3, 2>>}
\* the two byte values a blurred region's pixels start from
BlurValues == {0, 1}

\* the buffers of w*h pixels in which the first two channels of every pixel are
\* drawn from the two values and the other two are fixed
BlurBuffers(w, h) ==
    { [i \in 0..(4 * w * h - 1) |->
          IF i % 4 = 0 THEN bits[i \div 4]
          ELSE IF i % 4 = 1 THEN 255 * bits[i \div 4]
          ELSE IF i % 4 = 2 THEN 90 ELSE 255] :
      bits \in [0..(w * h - 1) -> BlurValues] }

NoBlur == [stage |-> 0, w |-> 0, h |-> 0, radius |-> 0, passes |-> 0,
           before |-> <<>>, first |-> <<>>, second |-> <<>>]

BlurInit == \E s \in BlurShapes, q \in BlurParams :
    \E b \in BlurBuffers(s[1], s[2]) :
        bb = [stage |-> 0, w |-> s[1], h |-> s[2], radius |-> q[1], passes |-> q[2],
              before |-> b, first |-> b, second |-> b]

BlurCanvas(data) == [width |-> bb.w, height |-> bb.h, data |-> data]

\* the first application
BlurOnce ==
    /\ bb.stage = 0
    /\ bb' = [bb EXCEPT !.stage = 1,
                        !.first = applyBoxBlur(BlurCanvas(bb.before), 0, 0, bb.w, bb.h,
                                               bb.radius, bb.passes).data]

\* the second application, same region, radius and passes
BlurTwice ==
    /\ bb.stage = 1
    /\ bb' = [bb EXCEPT !.stage = 2,
                        !.second = applyBoxBlur(BlurCanvas(bb.first), 0, 0, bb.w, bb.h,
                                                bb.radius, bb.passes).data]

----------------------------------------------------------------------------
(* Alpha Map Builder *)

Max3(a, b, c) == Max2(a, Max2(b, c))

\* a mutant: the least channel instead of the greatest
calculateAlphaMapMin(bgImageData) == Tabulated(
    [i \in 0..(bgImageData.width * bgImageData.height - 1) |->
        Min2(bgImageData.data[i * 4],
             Min2(bgImageData.data[i * 4 + 1], bgImageData.data[i * 4 + 2]))])

\* calculateAlphaMap(bgImageData): entry i is the numerator of
\* Math.max(data[idx], data[idx + 1], data[idx + 2]) / 255.0
calculateAlphaMap(bgImageData) == Tabulated(
    [i \in 0..(bgImageData.width * bgImageData.height - 1) |->
        Max3(bgImageData.data[i * 4], bgImageData.data[i * 4 + 1],
             bgImageData.data[i * 4 + 2])])

\* ctx.drawImage(img, 0, 0, size, size) onto a fresh size x size canvas: the
\* image stretched to the canvas, each canvas pixel taking the image pixel its
\* centre falls on
DrawScaled(img, size) ==
    [width |-> size, height |-> size,
     data |-> Tabulated(
        [i \in 0..(4 * size * size - 1) |->
            LET row == (i \div 4) \div size
                col == (i \div 4) % size
                srcRow == ((2 * row + 1) * img.height) \div (2 * size)
                srcCol == ((2 * col + 1) * img.width) \div (2 * size)
            IN  img.data[(srcRow * img.width + srcCol) * 4 + (i % 4)]])]

\* extractFromImg(img) inside loadAlphaMap(src, size)
extractFromImg(img, size) ==
    LET cv == DrawScaled(img, size)
        imageData == [width |-> size, height |-> size,
                      data |-> getImageData(cv, 0, 0, size, size)]
    IN  calculateAlphaMap(imageData)

----------------------------------------------------------------------------
(* Solid Fill *)

\* a mutant: the rectangle lies one pixel too far left
fillRectShifted(cv, x, y, w, h, color, opacity) ==
    [cv EXCEPT !.data = Tabulated(
        [j \in DOMAIN cv.data |->
            LET row == (j \div 4) \div cv.width
                col == (j \div 4) % cv.width
                c == j % 4
                dstA == cv.data[j - c + 3]
                outA == opacity * 255 + dstA * (100 - opacity)
            IN  IF row >= y /\ row < y + h /\ col >= x - 1 /\ col < x - 1 + w
                THEN IF c = 3 THEN ToUint8Clamped(outA, 100)
                     ELSE ToUint8Clamped(color[c + 1] * opacity * 255
                                           + cv.data[j] * dstA * (100 - opacity), outA)
                ELSE cv.data[j]])]

\* ctx.fillRect(x, y, w, h) with fillStyle color (an opaque <<r, g, b>>) and
\* globalAlpha opacity/100, composited source-over: the canvas afterwards
fillRect(cv, x, y, w, h, color, opacity) ==
    [cv EXCEPT !.data = Tabulated(
        [j \in DOMAIN cv.data |->
            LET row == (j \div 4) \div cv.width
                col == (j \div 4) % cv.width
                c == j % 4
                dstA == cv.data[j - c + 3]
                outA == opacity * 255 + dstA * (100 - opacity)
            IN  IF row >= y /\ row < y + h /\ col >= x /\ col < x + w
                THEN IF c = 3 THEN ToUint8Clamped(outA, 100)
                     ELSE ToUint8Clamped(color[c + 1] * opacity * 255
                                           + cv.data[j] * dstA * (100 - opacity), outA)
                ELSE cv.data[j]])]

----------------------------------------------------------------------------
(* Border-Sampling Inpainter *)

BORDER_MIN == 10
SAMPLE_STEP == 2
\* Math.random() is modelled as a multiple of 1/RAND_DEN below 1
RAND_DEN == 4

\* the values bx (or by) takes in `for (b = from; b < to; b += sampleStep)`
Stepped(from, to) == { b \in from..(to - 1) : (b - from) % SAMPLE_STEP = 0 }

\* the coordinates applyInpaint hands to sampleAt (lines 257-264)
BorderCoords(x, y, w, h, borderSize) ==
    LET above == Stepped(x - borderSize, x + w + borderSize) \X Stepped(y - borderSize, y)
        below == Stepped(x - borderSize, x + w + borderSize) \X Stepped(y + h, y + h + borderSize)
        left  == Stepped(x - borderSize, x) \X Stepped(y, y + h)
        right == Stepped(x + w, x + w + borderSize) \X Stepped(y, y + h)
    IN  above \cup below \cup left \cup right

\* those of them sampleAt keeps: the ones inside the canvas
BorderPixels(x, y, w, h, canvasWidth, canvasHeight) ==
    LET borderSize == Max2(BORDER_MIN, Min2(w, h) \div 5)
    IN  { b \in BorderCoords(x, y, w, h, borderSize) :
            b[1] >= 0 /\ b[1] < canvasWidth /\ b[2] >= 0 /\ b[2] < canvasHeight }

RECURSIVE SumSet(_, _)
\* the sum of F(e) for e in S
SumSet(F(_), S) ==
    IF S = {} THEN 0
    ELSE LET e == CHOOSE e \in S : TRUE IN F(e) + SumSet(F, S \ {e})

\* the sum of channel c over the border samples (the reduce of lines 268-269)
BorderSum(cv, border, c) ==
    SumSet(LAMBDA b : cv.data[(b[2] * cv.width + b[1]) * 4 + c], border)

\* a mutant: the factor falls from 1 on the boundary to 0 at the centre
EdgeFactorInverted(px, py, w, h) ==
    Min2(w, h) - Min2(2 * Min2(Min2(px, w - px), Min2(py, h - py)), Min2(w, h))

\* Math.min(edgeFactor, 1) of lines 278-279 for the region pixel (px, py), as
\* its numerator over Math.min(w, h)
EdgeFactor(px, py, w, h) ==
    Min2(2 * Min2(Min2(px, w - px), Min2(py, h - py)), Min2(w, h))

\* the region buffer applyInpaint writes (lines 272-285) when the border is
\* not empty and Math.random() returns rand[k] / RAND_DEN for the k-th pixel
InpaintFill(cv, x, y, w, h, canvasWidth, canvasHeight, rand) ==
    LET border == BorderPixels(x, y, w, h, canvasWidth, canvasHeight)
        len == Cardinality(border)
        sum == [c \in 0..2 |-> BorderSum(cv, border, c)]
        minwh == Min2(w, h)
    IN  Tabulated(
            [i \in 0..(4 * w * h - 1) |->
                LET py == (i \div 4) \div w
                    px == (i \div 4) % w
                    \* (Math.random() - 0.5) * 12 = noiseNum / RAND_DEN
                    noiseNum == 12 * rand[i \div 4] - 6 * RAND_DEN
                IN  IF i % 4 = 3 THEN 255
                    ELSE ToUint8Clamped(sum[i % 4] * RAND_DEN * minwh
                                          + noiseNum * EdgeFactor(px, py, w, h) * len,
                                        len * RAND_DEN * minwh)])

\* applyInpaint(ctx, x, y, w, h, canvasWidth, canvasHeight): the canvas afterwards
applyInpaint(cv, x, y, w, h, canvasWidth, canvasHeight, rand) ==
    IF BorderPixels(x, y, w, h, canvasWidth, canvasHeight) = {} THEN cv
    ELSE applyBoxBlur(putImageData(cv, InpaintFill(cv, x, y, w, h, canvasWidth, canvasHeight, rand),
                                   x, y, w, h),
                      x, y, w, h, 5, 2)

----------------------------------------------------------------------------
(* Neighbor-Sampling Reconstructor *)

WEIGHT_STOP == 8
SEARCH_MARGIN == 8

\* alphaMap[i] > ALPHA_THRESHOLD, for the opacity alpha/255 and the threshold 0.05
AboveThreshold(alpha) == 100 * alpha > 5 * 255

\* the mask of lines 313-320: TRUE where the pixel needs reconstruction
BuildMask(alphaMap, w, h) ==
    [k \in 0..(w * h - 1) |-> IF k \in DOMAIN alphaMap THEN AboveThreshold(alphaMap[k]) ELSE FALSE]

\* mask[k] as the code reads it: an index past the array reads undefined, which is falsy
MaskAt(mask, k) == IF k \in DOMAIN mask THEN mask[k] ELSE FALSE

\* the body of the dx loop (lines 335-363) for one (dy, dx) of ring `radius`
\* around the target (row, col): the sample it adds to the sums, if any
SampleAt(mask, position, canvasWidth, canvasHeight, row, col, dy, dx, radius) ==
    LET d2 == dx * dx + dy * dy
        sRow == row + dy
        sCol == col + dx
        absRow == position.y + sRow
        absCol == position.x + sCol
        it == [sRow |-> sRow, sCol |-> sCol, d2 |-> d2, radius |-> radius,
               inRegion |-> sRow >= 0 /\ sRow < position.height /\ sCol >= 0 /\ sCol < position.width,
               imgIdx |-> (absRow * canvasWidth + absCol) * 4]
    IN  \* dist < radius - 1 || dist > radius + 1
        IF d2 < (radius - 1) * (radius - 1) \/ d2 > (radius + 1) * (radius + 1) THEN <<>>
        ELSE IF it.inRegion
             THEN IF MaskAt(mask, sRow * position.width + sCol) THEN <<>> ELSE <<it>>
             ELSE IF absRow < 0 \/ absRow >= canvasHeight \/ absCol < 0 \/ absCol >= canvasWidth
                  THEN <<>>
                  ELSE <<it>>

RECURSIVE RingRow(_, _, _, _, _, _, _, _, _)
\* the samples of ring `radius` from the t-th (dy, dx) of its two loops up to,
\* not including, the one numbered `end` of the same dy
RingRow(mask, position, canvasWidth, canvasHeight, row, col, radius, t, end) ==
    LET step == Max2(1, radius \div 2)
        n == (2 * radius) \div step + 1
    IN  IF t >= end THEN <<>>
        ELSE SampleAt(mask, position, canvasWidth, canvasHeight, row, col,
                      -radius + (t \div n) * step, -radius + (t % n) * step, radius)
             \o RingRow(mask, position, canvasWidth, canvasHeight, row, col, radius, t + 1, end)

RECURSIVE RingFrom(_, _, _, _, _, _, _, _)
\* the samples of ring `radius` from the t-th (dy, dx) of its two loops on:
\* the rest of that dy's dx loop, then the later dy
RingFrom(mask, position, canvasWidth, canvasHeight, row, col, radius, t) ==
    LET step == Max2(1, radius \div 2)
        n == (2 * radius) \div step + 1
        end == ((t \div n) + 1) * n
    IN  IF t >= n * n THEN <<>>
        ELSE RingRow(mask, position, canvasWidth, canvasHeight, row, col, radius, t, end)
             \o RingFrom(mask, position, canvasWidth, canvasHeight, row, col, radius, end)

RECURSIVE LcmOfSet(_)
\* the least common multiple of a set of positive integers
LcmOfSet(S) ==
    IF S = {} THEN 1
    ELSE LET e == CHOOSE e \in S : TRUE IN Lcm(e, LcmOfSet(S \ {e}))

\* the least common multiple of the squared distances of samples k..Len
LcmOfD2(samples, k) == LcmOfSet({ samples[n].d2 : n \in k..Len(samples) })

\* wSum < bound, for wSum the sum of 1 / d2 over the samples
WeightBelow(samples, bound) ==
    LET scale == LcmOfD2(samples, 1)
    IN  SumRange(LAMBDA k : scale \div samples[k].d2, 1, Len(samples)) < bound * scale

RECURSIVE SearchFromToTheEnd(_, _, _, _, _, _, _, _)
\* a mutant: the radius loop without its `wSum < 8`
SearchFromToTheEnd(mask, position, canvasWidth, canvasHeight, row, col, radius, acc) ==
    IF radius <= Max2(position.width, position.height) + SEARCH_MARGIN
    THEN SearchFromToTheEnd(mask, position, canvasWidth, canvasHeight, row, col, radius + 1,
                            acc \o RingFrom(mask, position, canvasWidth, canvasHeight, row, col, radius, 0))
    ELSE acc

RECURSIVE SearchFrom(_, _, _, _, _, _, _, _)
\* the radius loop of line 330 from `radius` on, `acc` the samples added so far
SearchFrom(mask, position, canvasWidth, canvasHeight, row, col, radius, acc) ==
    IF radius <= Max2(position.width, position.height) + SEARCH_MARGIN
       /\ WeightBelow(acc, WEIGHT_STOP)
    THEN SearchFrom(mask, position, canvasWidth, canvasHeight, row, col, radius + 1,
                    acc \o RingFrom(mask, position, canvasWidth, canvasHeight, row, col, radius, 0))
    ELSE acc

\* every sample added to rSum, gSum, bSum and wSum for the target (row, col), in order
Samples(mask, position, canvasWidth, canvasHeight, row, col) ==
    SearchFrom(mask, position, canvasWidth, canvasHeight, row, col, 1, <<>>)

\* Math.round(sum / wSum) stored into the Uint8ClampedArray for channel c: 0
\* when a sample read past the buffer (undefined makes the sum NaN) and when
\* wSum is 0 (0 / 0 is NaN)
Reconstructed(data, samples, c) ==
    LET scale == LcmOfD2(samples, 1)
        wSum == SumRange(LAMBDA k : scale \div samples[k].d2, 1, Len(samples))
        sum == SumRange(LAMBDA k : data[samples[k].imgIdx + c] * (scale \div samples[k].d2),
                        1, Len(samples))
    IN  IF \E k \in 1..Len(samples) : samples[k].imgIdx + c \notin DOMAIN data THEN 0
        ELSE IF wSum = 0 THEN 0
        ELSE Min2(255, (2 * sum + wSum) \div (2 * wSum))

\* data with the three colour bytes at imgIdx replaced; a write past the buffer is dropped
WritePixel(data, imgIdx, r, g, b) ==
    [j \in DOMAIN data |->
        IF j = imgIdx THEN r ELSE IF j = imgIdx + 1 THEN g ELSE IF j = imgIdx + 2 THEN b
        ELSE data[j]]

RECURSIVE RemoveFromUnguarded(_, _, _, _, _, _)
\* a mutant: the pixel is written without the `wSum > 0` of line 367
RemoveFromUnguarded(data, mask, position, canvasWidth, canvasHeight, k) ==
    LET w == position.width
        row == k \div w
        col == k % w
        samples == Samples(mask, position, canvasWidth, canvasHeight, row, col)
        imgIdx == ((position.y + row) * canvasWidth + (position.x + col)) * 4
    IN  IF k >= w * position.height THEN data
        ELSE IF ~mask[k]
             THEN RemoveFromUnguarded(data, mask, position, canvasWidth, canvasHeight, k + 1)
             ELSE RemoveFromUnguarded(Tabulated(WritePixel(data, imgIdx,
                                                           Reconstructed(data, samples, 0),
                                                           Reconstructed(data, samples, 1),
                                                           Reconstructed(data, samples, 2))),
                                      mask, position, canvasWidth, canvasHeight, k + 1)

RECURSIVE RemoveFrom(_, _, _, _, _, _)
\* the loop of lines 323-375 from the k-th pixel of the region on (k = row * w + col)
RemoveFrom(data, mask, position, canvasWidth, canvasHeight, k) ==
    LET w == position.width
        row == k \div w
        col == k % w
        samples == Samples(mask, position, canvasWidth, canvasHeight, row, col)
        imgIdx == ((position.y + row) * canvasWidth + (position.x + col)) * 4
    IN  IF k >= w * position.height THEN data
        ELSE IF ~mask[k] \/ Len(samples) = 0
             THEN RemoveFrom(data, mask, position, canvasWidth, canvasHeight, k + 1)
             ELSE RemoveFrom(Tabulated(WritePixel(data, imgIdx,
                                                  Reconstructed(data, samples, 0),
                                                  Reconstructed(data, samples, 1),
                                                  Reconstructed(data, samples, 2))),
                             mask, position, canvasWidth, canvasHeight, k + 1)

\* removeWatermarkWithAlphaMap(imageData, alphaMap, position, canvasWidth,
\* canvasHeight): imageData.data afterwards
removeWatermarkWithAlphaMap(data, alphaMap, position, canvasWidth, canvasHeight) ==
    RemoveFrom(data, BuildMask(alphaMap, position.width, position.height),
               position, canvasWidth, canvasHeight, 0)

----------------------------------------------------------------------------
(* The variables of SpecCore, SpecAlphaLoad and SpecImageLoad at rest *)

NoCore == [stage |-> 0, op |-> "none"]
NoAlphaLoad == [pc |-> "none"]
NoImageLoad == [pc |-> "none"]

----------------------------------------------------------------------------
(* process(): one invocation per element of Calls, all on the one canvas *)

Calls == {1, 2}

\* the blur branch (line 428)
ProcessBlur(cv, info, set) ==
    applyBoxBlur(cv, info.x, info.y, info.width, info.height, set.blurRadius, 4)

\* the fill branch (lines 430-434)
ProcessFill(cv, info, set) ==
    fillRect(cv, info.x, info.y, info.width, info.height, set.coverColor, set.opacity)

\* lines 416-421: the alpha map in hand
ProcessAlphaGuided(cv, width, height, info, alphaMap) ==
    LET imageData == getImageData(cv, 0, 0, width, height)
        removed == removeWatermarkWithAlphaMap(imageData, alphaMap, info, width, height)
    IN  applyBoxBlur(putImageData(cv, removed, 0, 0, width, height),
                     info.x, info.y, info.width, info.height, 3, 2)

\* line 425: the catch block
ProcessFallback(cv, width, height, info, rand) ==
    applyInpaint(cv, info.x, info.y, info.width, info.height, width, height, rand)

\* a mutant: the fallback runs in a finally block, after the try block's work
\* too (there with Math.random() returning 0 throughout)
TryAlphaGuidedThenAlways(cv, width, height, info, alpha, rand) ==
    IF alpha.ok
    THEN [canvas |-> ProcessFallback(ProcessAlphaGuided(cv, width, height, info, alpha.map),
                                     width, height, info,
                                     [k \in 0..(info.width * info.height - 1) |-> 0]),
          ran |-> <<"neighbor", "blur(3,2)", "inpaint">>]
    ELSE [canvas |-> ProcessFallback(cv, width, height, info, rand), ran |-> <<"inpaint">>]

\* the try/catch of lines 410-426 once loadAlphaMap has settled: the canvas
\* afterwards and the strategies that ran
TryAlphaGuided(cv, width, height, info, alpha, rand) ==
    IF alpha.ok
    THEN [canvas |-> ProcessAlphaGuided(cv, width, height, info, alpha.map),
          ran |-> <<"neighbor", "blur(3,2)">>]
    ELSE [canvas |-> ProcessFallback(cv, width, height, info, rand), ran |-> <<"inpaint">>]

NoAlpha == [ok |-> FALSE, map |-> <<>>]
NoInfo == WatermarkInfo(0, 0, 0, 0, 0, 0, 0)
NoLocal == [width |-> 0, height |-> 0, info |-> NoInfo, alpha |-> NoAlpha, rand |-> <<>>]
NoResult == [kind |-> "none", width |-> 0, height |-> 0, data |-> <<>>]

\* canvas.toDataURL('image/png'): a lossless encoding of the canvas
toDataURL(cv) == [kind |-> "png", width |-> cv.width, height |-> cv.height, data |-> cv.data]

\* the dataUrl onProcessed gets on line 397: imageSrc itself
SrcUrl == [kind |-> "src", width |-> imageSrc.width, height |-> imageSrc.height,
           data |-> imageSrc.data]

\* process() is called (lines 384-392): it suspends in loadImageToCanvas
Start(i) ==
    /\ pc[i] = "idle"
    /\ \A j \in Calls : j < i => pc[j] # "idle"
    /\ pc' = [pc EXCEPT ![i] = "loadImage"]
    /\ UNCHANGED <<loc, bb, core, alphaLoad, imageLoad, original, imageSrc, assets, settings, canvas, local, ran, result>>

\* process() is called and canvasRef.current or its 2d context is null: it
\* returns on line 385 or 387
ReturnEarly(i) ==
    /\ pc[i] = "idle"
    /\ \A j \in Calls : j < i => pc[j] # "idle"
    /\ pc' = [pc EXCEPT ![i] = "returned"]
    /\ UNCHANGED <<loc, bb, core, alphaLoad, imageLoad, original, imageSrc, assets, settings, canvas, local, ran, result>>

\* loadImageToCanvas rejects: lines 393-398
ImageFailed(i) ==
    /\ pc[i] = "loadImage"
    /\ pc' = [pc EXCEPT ![i] = "done"]
    /\ result' = [result EXCEPT ![i] = SrcUrl]
    /\ UNCHANGED <<loc, bb, core, alphaLoad, imageLoad, original, imageSrc, assets, settings, canvas, local, ran>>

\* loadImageToCanvas draws the image and resolves; process() runs on to its
\* next await (loadAlphaMap, line 411) or, for blur and fill, to its end
ImageLoaded(i) ==
    /\ pc[i] = "loadImage"
    /\ LET drawn == [width |-> imageSrc.width, height |-> imageSrc.height, data |-> imageSrc.data]
           width == drawn.width
           height == drawn.height
           info == getWatermarkInfoScaled(width, height)
           after == IF settings.method = "blur" THEN ProcessBlur(drawn, info, settings)
                    ELSE ProcessFill(drawn, info, settings)
       IN  /\ local' = [local EXCEPT ![i] = [NoLocal EXCEPT !.width = width, !.height = height,
                                                           !.info = info]]
           /\ IF settings.method \in {"remove", "inpaint"}
              THEN /\ pc' = [pc EXCEPT ![i] = "loadAlpha"]
                   /\ canvas' = drawn
                   /\ UNCHANGED <<ran, result>>
              ELSE /\ pc' = [pc EXCEPT ![i] = "done"]
                   /\ canvas' = after
                   /\ ran' = [ran EXCEPT ![i] = <<settings.method>>]
                   /\ result' = [result EXCEPT ![i] = toDataURL(after)]
    /\ UNCHANGED <<loc, bb, core, alphaLoad, imageLoad, original, imageSrc, assets, settings>>

\* loadAlphaMap has settled, with the alpha map or with a rejection: process()
\* runs lines 416-426 and 437
Settle(i, alpha, rand) ==
    LET l == local[i]
        done == TryAlphaGuided(canvas, l.width, l.height, l.info, alpha, rand)
    IN  /\ pc' = [pc EXCEPT ![i] = "done"]
        /\ local' = [local EXCEPT ![i].alpha = alpha, ![i].rand = IF alpha.ok THEN <<>> ELSE rand]
        /\ canvas' = done.canvas
        /\ ran' = [ran EXCEPT ![i] = done.ran]
        /\ result' = [result EXCEPT ![i] = toDataURL(done.canvas)]
        /\ UNCHANGED <<loc, bb, core, alphaLoad, imageLoad, original, imageSrc, assets, settings>>

\* the image loadAlphaMap decodes from src: '/bg_96.png' or '/bg_48.png' (line 412)
Asset(size) == assets[size]

\* loadAlphaMap resolves: one of its image loads succeeded and extractFromImg
\* (lines 62-71) built the map
AlphaLoaded(i) ==
    /\ pc[i] = "loadAlpha"
    /\ Settle(i, [ok |-> TRUE, map |-> extractFromImg(Asset(local[i].info.size), local[i].info.size)],
              <<>>)

\* what Math.random() returns over one applyInpaint, as numerators over RAND_DEN
RandFields(n) ==
    {[k \in 0..(n - 1) |-> 2], [k \in 0..(n - 1) |-> IF k % 2 = 0 THEN 0 ELSE 3]}

\* loadAlphaMap rejects
AlphaFailed(i) ==
    /\ pc[i] = "loadAlpha"
    /\ \E rand \in RandFields(local[i].info.width * local[i].info.height) :
           Settle(i, NoAlpha, rand)

----------------------------------------------------------------------------
(* The inputs of process(): pictures, reference assets, settings *)

\* canvas sizes: narrower than the logo and one row higher than the logo with
\* its margin, one column wider than the logo with its margin, the smallest
\* large picture, and a single pixel
CanvasSizes ==
    {<<SmallSize - 1, SmallSize + SmallMargin + 1>>,
     <<SmallSize + SmallMargin + 1, SmallSize + SmallMargin>>,
     <<LargeLimit + 1, LargeLimit + 1>>,
     <<1, 1>>}

\* an opaque picture: "tinted" differs from pixel to pixel, "white" is all 255
Picture(kind, w, h) ==
    [width |-> w, height |-> h,
     data |-> [i \in 0..(4 * w * h - 1) |->
                  IF i % 4 = 3 \/ kind = "white" THEN 255
                  ELSE (40 * ((i \div 4) % w) + 70 * ((i \div 4) \div w) + 90 * (i % 4) + 30) % 256]]

PictureKinds == {"tinted", "white"}

\* a reference asset for the logo of `size`: a half-bright centre and a
\* coloured top right corner on black; "logo" has the right size, "wide" is
\* one column and one row too big
ReferenceImage(kind, size) ==
    LET w == IF kind = "wide" THEN size + 1 ELSE size
    IN  [width |-> w, height |-> w,
         data |-> [i \in 0..(4 * w * w - 1) |->
                     LET row == (i \div 4) \div w
                         col == (i \div 4) % w
                         c == i % 4
                     IN  IF c = 3 THEN 255
                         ELSE IF row = w \div 2 /\ col = w \div 2 THEN 128
                         ELSE IF row = 0 /\ col = w - 1 THEN <<60, 200, 20>>[c + 1]
                         ELSE 0]]

ReferenceKinds == {"logo", "wide"}

\* the settings prop: blurRadius in the slider's 5..50, opacity in percent
White == <<255, 255, 255>>
Black == <<0, 0, 0>>
SettingsSamples ==
    {[method |-> "remove", blurRadius |-> 20, coverColor |-> White, opacity |-> 100],
     [method |-> "inpaint", blurRadius |-> 20, coverColor |-> White, opacity |-> 100],
     [method |-> "blur", blurRadius |-> 5, coverColor |-> White, opacity |-> 100],
     [method |-> "blur", blurRadius |-> 8, coverColor |-> White, opacity |-> 100],
     [method |-> "fill", blurRadius |-> 20, coverColor |-> Black, opacity |-> 100],
     [method |-> "fill", blurRadius |-> 20, coverColor |-> <<10, 200, 90>>, opacity |-> 50]}

\* the logo blended over a picture, as section 4.3 of the specification
\* assumes it: observed = alpha * 255 + (1 - alpha) * original on the three
\* colour channels of every pixel of the region, rounded to a byte
ForwardBlend(picture, alphaMap, info) ==
    [picture EXCEPT !.data =
        [j \in DOMAIN picture.data |->
            LET row == ((j \div 4) \div picture.width) - info.y
                col == ((j \div 4) % picture.width) - info.x
                a == alphaMap[row * info.width + col]
            IN  IF j % 4 # 3 /\ row >= 0 /\ row < info.height /\ col >= 0 /\ col < info.width
                THEN ToUint8Clamped(a * 255 + (255 - a) * picture.data[j], 255)
                ELSE picture.data[j]]]

Init ==
    /\ loc = NoLoc
    /\ bb = NoBlur
    /\ core = NoCore
    /\ alphaLoad = NoAlphaLoad
    /\ imageLoad = NoImageLoad
    /\ settings \in SettingsSamples
    /\ \E size \in CanvasSizes, pk \in PictureKinds, rk \in ReferenceKinds :
        LET info == getWatermarkInfoScaled(size[1], size[2]) IN
        \* 'inpaint' takes the branch of 'remove' (line 405): one picture and
        \* one reference asset per canvas size are enough for it
        /\ settings.method = "inpaint" => (pk = "tinted" /\ rk = "logo")
        /\ original = Picture(pk, size[1], size[2])
        /\ assets = [s \in {SmallSize, LargeSize} |-> ReferenceImage(rk, s)]
        /\ imageSrc = ForwardBlend(Picture(pk, size[1], size[2]),
                                   extractFromImg(ReferenceImage(rk, info.size), info.size), info)
    /\ canvas = [width |-> 0, height |-> 0, data |-> <<>>]
    /\ pc = [i \in Calls |-> "idle"]
    /\ local = [i \in Calls |-> NoLocal]
    /\ ran = [i \in Calls |-> <<>>]
    /\ result = [i \in Calls |-> NoResult]

Next ==
    \E i \in Calls :
        \/ Start(i)
        \/ ReturnEarly(i)
        \/ ImageFailed(i)
        \/ ImageLoaded(i)
        \/ AlphaLoaded(i)
        \/ AlphaFailed(i)

Spec == Init /\ [][Next]_vars

----------------------------------------------------------------------------
(* Specifications *)

\* the process() model at rest, for the specifications of the pure functions
MainIdle ==
    /\ original = <<>>
    /\ imageSrc = <<>>
    /\ assets = <<>>
    /\ settings = <<>>
    /\ canvas = <<>>
    /\ pc = <<>>
    /\ local = <<>>
    /\ ran = <<>>
    /\ result = <<>>

mainVars == <<original, imageSrc, assets, settings, canvas, pc, local, ran, result>>

\* the loaders' specifications at rest
LoadersIdle == alphaLoad = NoAlphaLoad /\ imageLoad = NoImageLoad

loaderVars == <<alphaLoad, imageLoad>>

SpecLocateInit == LocInit /\ bb = NoBlur /\ core = NoCore /\ LoadersIdle /\ MainIdle
SpecLocateNext == Locate /\ UNCHANGED <<bb, core, loaderVars, mainVars>>
SpecLocate == SpecLocateInit /\ [][SpecLocateNext]_vars

SpecBlurInit == BlurInit /\ loc = NoLoc /\ core = NoCore /\ LoadersIdle /\ MainIdle
SpecBlurNext ==
    \/ BlurOnce /\ UNCHANGED <<loc, core, loaderVars, mainVars>>
    \/ BlurTwice /\ UNCHANGED <<loc, core, loaderVars, mainVars>>
SpecBlur == SpecBlurInit /\ [][SpecBlurNext]_vars

\* SpecCore: one core operation applied to one input.  The reconstructor gets
\* a 2 x 2 region that covers the canvas, lies inside it or hangs over its
\* edge, under every alpha map of opacities 0 and 1; the blur gets process()'s
\* radii and passes; the inpainter gets a pixel with and without border
\* samples on the canvas.
CoreCanvases == {<<2, 2>>, <<3, 3>>}
CorePositions == {<<0, 0>>, <<1, 1>>, <<-1, 0>>}
CoreAlphaMaps == [0..3 -> {0, 255}]
CoreBlurParams == {0, 1, 5, 8} \X {1, 2, 4}
CoreInpaintCanvases == {<<1, 1>>, <<2, 2>>}
CoreInpaintPositions == {<<1, 0>>, <<2, 0>>, <<0, 0>>}

CoreInput(op, size, at, side, alphaMap, radius, passes, rand) ==
    [stage |-> 0, op |-> op, cv |-> Picture("tinted", size[1], size[2]),
     position |-> [x |-> at[1], y |-> at[2], width |-> side, height |-> side],
     alphaMap |-> alphaMap, radius |-> radius, passes |-> passes, rand |-> rand,
     out |-> Picture("tinted", size[1], size[2]).data]

CoreInit ==
    \/ \E size \in CoreCanvases, at \in CorePositions, alphaMap \in CoreAlphaMaps :
           core = CoreInput("remove", size, at, 2, alphaMap, 0, 0, <<>>)
    \/ \E q \in CoreBlurParams :
           core = CoreInput("blur", <<2, 2>>, <<0, 0>>, 2, <<>>, q[1], q[2], <<>>)
    \/ \E size \in CoreInpaintCanvases, at \in CoreInpaintPositions, rand \in RandFields(1) :
           core = CoreInput("inpaint", size, at, 1, <<>>, 0, 0, rand)

\* removeWatermarkWithAlphaMap on the canvas's image data
CoreRemove ==
    /\ core.stage = 0 /\ core.op = "remove"
    /\ core' = [core EXCEPT !.stage = 1,
                            !.out = removeWatermarkWithAlphaMap(core.cv.data, core.alphaMap,
                                        core.position, core.cv.width, core.cv.height)]

\* applyBoxBlur on the region
CoreBlur ==
    /\ core.stage = 0 /\ core.op = "blur"
    /\ core' = [core EXCEPT !.stage = 1,
                            !.out = applyBoxBlur(core.cv, core.position.x, core.position.y,
                                        core.position.width, core.position.height,
                                        core.radius, core.passes).data]

\* applyInpaint on the region
CoreInpaint ==
    /\ core.stage = 0 /\ core.op = "inpaint"
    /\ core' = [core EXCEPT !.stage = 1,
                            !.out = applyInpaint(core.cv, core.position.x, core.position.y,
                                        core.position.width, core.position.height,
                                        core.cv.width, core.cv.height, core.rand).data]

SpecCoreInit == CoreInit /\ loc = NoLoc /\ bb = NoBlur /\ LoadersIdle /\ MainIdle
SpecCoreNext ==
    \/ CoreRemove /\ UNCHANGED <<loc, bb, loaderVars, mainVars>>
    \/ CoreBlur /\ UNCHANGED <<loc, bb, loaderVars, mainVars>>
    \/ CoreInpaint /\ UNCHANGED <<loc, bb, loaderVars, mainVars>>
SpecCore == SpecCoreInit /\ [][SpecCoreNext]_vars

\* SpecAlphaLoad: one call of loadAlphaMap(src, size), from its fetch to the
\* settling of the promise it returns.  alphaLoad.started lists the loads it
\* has begun, alphaLoad.blobUrl is "none", "live" or "revoked".
HttpStatuses == {200, 206, 404, 500, 503}

\* res.ok
Ok(status) == status >= 200 /\ status <= 299

AlphaLoadInit ==
    \E size \in {SmallSize, LargeSize}, rk \in ReferenceKinds :
        alphaLoad = [pc |-> "fetch", size |-> size, img |-> ReferenceImage(rk, size),
                     status |-> 0, started |-> <<"fetch">>, blobUrl |-> "none",
                     outcome |-> "pending", value |-> <<>>]

\* the catch block of lines 95-108 is entered: the direct load begins
AlphaCatch(status) ==
    alphaLoad' = [alphaLoad EXCEPT !.pc = "direct", !.status = status,
                                   !.started = Append(@, "direct")]

\* resolve(extractFromImg(img)) or, when extractFromImg throws for want of a
\* 2d context, reject(e): lines 82-85 and 99-100
AlphaSettle(ctx, blobUrl) ==
    alphaLoad' = [alphaLoad EXCEPT
                     !.pc = "settled", !.blobUrl = blobUrl,
                     !.outcome = IF ctx THEN "resolved" ELSE "rejected",
                     !.value = IF ctx THEN extractFromImg(alphaLoad.img, alphaLoad.size) ELSE <<>>]

\* reject(...) of lines 85 and 92: the promise returned on line 79 rejects;
\* it was returned without await, so the catch block is not entered
AlphaBlobImgFails(blobUrl) ==
    alphaLoad' = [alphaLoad EXCEPT !.pc = "settled", !.blobUrl = blobUrl,
                                   !.outcome = "rejected"]

\* fetch(src) rejects (line 75)
AlphaFetchRejects ==
    /\ alphaLoad.pc = "fetch"
    /\ AlphaCatch(0)

\* fetch(src) resolves with a response: line 76 throws unless res.ok
AlphaFetchResolves(status) ==
    /\ alphaLoad.pc = "fetch"
    /\ IF Ok(status)
       THEN alphaLoad' = [alphaLoad EXCEPT !.pc = "blob", !.status = status]
       ELSE AlphaCatch(status)

\* res.blob() rejects (line 77)
AlphaBlobRejects ==
    /\ alphaLoad.pc = "blob"
    /\ AlphaCatch(alphaLoad.status)

\* res.blob() resolves: lines 78-93 create the blob URL and begin the image load
AlphaBlobResolves ==
    /\ alphaLoad.pc = "blob"
    /\ alphaLoad' = [alphaLoad EXCEPT !.pc = "blobImg", !.blobUrl = "live"]

\* img.onload of the blob image (lines 81-89), with or without a 2d context
AlphaBlobImgOnload(ctx) ==
    /\ alphaLoad.pc = "blobImg"
    /\ IF ctx THEN AlphaSettle(TRUE, "revoked") ELSE AlphaBlobImgFails("revoked")

\* img.onerror of the blob image (lines 90-93)
AlphaBlobImgOnerror ==
    /\ alphaLoad.pc = "blobImg"
    /\ AlphaBlobImgFails("revoked")

\* img.onload of the direct load (lines 98-101)
AlphaDirectOnload(ctx) ==
    /\ alphaLoad.pc = "direct"
    /\ AlphaSettle(ctx, alphaLoad.blobUrl)

\* img.onerror of the direct load (line 102)
AlphaDirectOnerror ==
    /\ alphaLoad.pc = "direct"
    /\ AlphaSettle(FALSE, alphaLoad.blobUrl)

SpecAlphaLoadInit ==
    AlphaLoadInit /\ loc = NoLoc /\ bb = NoBlur /\ core = NoCore /\ imageLoad = NoImageLoad /\ MainIdle
alphaLoadRest == <<loc, bb, core, imageLoad, mainVars>>
SpecAlphaLoadNext ==
    \/ AlphaFetchRejects /\ UNCHANGED alphaLoadRest
    \/ \E status \in HttpStatuses : AlphaFetchResolves(status) /\ UNCHANGED alphaLoadRest
    \/ AlphaBlobRejects /\ UNCHANGED alphaLoadRest
    \/ AlphaBlobResolves /\ UNCHANGED alphaLoadRest
    \/ \E ctx \in BOOLEAN : AlphaBlobImgOnload(ctx) /\ UNCHANGED alphaLoadRest
    \/ AlphaBlobImgOnerror /\ UNCHANGED alphaLoadRest
    \/ \E ctx \in BOOLEAN : AlphaDirectOnload(ctx) /\ UNCHANGED alphaLoadRest
    \/ AlphaDirectOnerror /\ UNCHANGED alphaLoadRest
SpecAlphaLoad == SpecAlphaLoadInit /\ [][SpecAlphaLoadNext]_vars

\* SpecImageLoad: one call of loadImageToCanvas(canvas, ctx, src), from
\* `img.src = src` to the settling of its promise.  imageLoad.started lists the
\* strategies begun and imageLoad.failed those that failed, in order;
\* resolves and rejects count the calls of resolve() and reject().
SrcKinds == {"data", "http"}

ImageLoadInit ==
    \E src \in SrcKinds, size \in CanvasSizes, pk \in PictureKinds :
        imageLoad = [pc |-> "img", src |-> src, img |-> Picture(pk, size[1], size[2]),
                     \* lines 186-188: crossOrigin only for non-data URLs
                     crossOrigin |-> src # "data",
                     status |-> 0, started |-> <<"direct">>, failed |-> <<>>,
                     canvas |-> [width |-> 0, height |-> 0, data |-> <<>>],
                     blobUrl |-> "none", resolves |-> 0, rejects |-> 0]

\* the body of the three onload handlers: the canvas takes the image's size
\* and the image is drawn at (0, 0); then resolve()
DrawAndResolve(blobUrl) ==
    imageLoad' = [imageLoad EXCEPT
                     !.pc = "settled", !.blobUrl = blobUrl,
                     !.canvas = [width |-> imageLoad.img.width, height |-> imageLoad.img.height,
                                 data |-> imageLoad.img.data],
                     !.resolves = @ + 1]

\* reject(...) while the fetch-as-blob strategy is under way
RejectInFetch(blobUrl) ==
    imageLoad' = [imageLoad EXCEPT !.pc = "settled", !.blobUrl = blobUrl,
                                   !.failed = Append(@, "fetch"), !.rejects = @ + 1]

\* fetch(src) is called (lines 140 and 163) after the strategy `last` failed
FetchAsBlob(last) ==
    imageLoad' = [imageLoad EXCEPT !.pc = "fetch", !.failed = Append(@, last),
                                   !.started = Append(@, "fetch")]

\* img.onload (lines 120-125)
ImgOnload ==
    /\ imageLoad.pc = "img"
    /\ DrawAndResolve(imageLoad.blobUrl)

\* a mutant: the first image's failure goes to fetch-as-blob at once
ImgOnerrorStraightToFetch ==
    /\ imageLoad.pc = "img"
    /\ FetchAsBlob("direct")

\* img.onerror (lines 127-183)
ImgOnerror ==
    /\ imageLoad.pc = "img"
    /\ IF imageLoad.crossOrigin
       THEN imageLoad' = [imageLoad EXCEPT !.pc = "img1b", !.failed = Append(@, "direct"),
                                           !.started = Append(@, "retry")]
       ELSE FetchAsBlob("direct")

\* img1b.onload (lines 132-137)
Img1bOnload ==
    /\ imageLoad.pc = "img1b"
    /\ DrawAndResolve(imageLoad.blobUrl)

\* img1b.onerror (lines 138-159)
Img1bOnerror ==
    /\ imageLoad.pc = "img1b"
    /\ FetchAsBlob("retry")

\* fetch(src) rejects: .catch(reject)
ImgFetchRejects ==
    /\ imageLoad.pc = "fetch"
    /\ RejectInFetch(imageLoad.blobUrl)

\* fetch(src) resolves, with whatever status: res.blob() is called
ImgFetchResolves(status) ==
    /\ imageLoad.pc = "fetch"
    /\ imageLoad' = [imageLoad EXCEPT !.pc = "blob", !.status = status]

\* res.blob() rejects: .catch(reject)
ImgBlobRejects ==
    /\ imageLoad.pc = "blob"
    /\ RejectInFetch(imageLoad.blobUrl)

\* res.blob() resolves: the blob URL is created and img2 begins to load
ImgBlobResolves ==
    /\ imageLoad.pc = "blob"
    /\ imageLoad' = [imageLoad EXCEPT !.pc = "img2", !.blobUrl = "live"]

\* img2.onload (lines 145-151 and 168-174)
Img2Onload ==
    /\ imageLoad.pc = "img2"
    /\ DrawAndResolve("revoked")

\* img2.onerror (lines 152-155 and 175-178)
Img2Onerror ==
    /\ imageLoad.pc = "img2"
    /\ RejectInFetch("revoked")

SpecImageLoadInit ==
    ImageLoadInit /\ loc = NoLoc /\ bb = NoBlur /\ core = NoCore /\ alphaLoad = NoAlphaLoad /\ MainIdle
imageLoadRest == <<loc, bb, core, alphaLoad, mainVars>>
SpecImageLoadNext ==
    \/ ImgOnload /\ UNCHANGED imageLoadRest
    \/ ImgOnerror /\ UNCHANGED imageLoadRest
    \/ Img1bOnload /\ UNCHANGED imageLoadRest
    \/ Img1bOnerror /\ UNCHANGED imageLoadRest
    \/ ImgFetchRejects /\ UNCHANGED imageLoadRest
    \/ \E status \in HttpStatuses : ImgFetchResolves(status) /\ UNCHANGED imageLoadRest
    \/ ImgBlobRejects /\ UNCHANGED imageLoadRest
    \/ ImgBlobResolves /\ UNCHANGED imageLoadRest
    \/ Img2Onload /\ UNCHANGED imageLoadRest
    \/ Img2Onerror /\ UNCHANGED imageLoadRest
SpecImageLoad == SpecImageLoadInit /\ [][SpecImageLoadNext]_vars

----------------------------------------------------------------------------
(* Claims *)

\* C1: getWatermarkInfo(W, H) has size 96 and margin 64 iff W > 1024 and
\* H > 1024, and size 48 and margin 32 otherwise; the region is the square of
\* that size at (W - margin - size, H - margin - size), never clamped.
C1_Locator ==
    loc.called =>
        LET W == loc.width
            H == loc.height
            info == loc.info
            marginX == W - info.x - info.size
            marginY == H - info.y - info.size
        IN  /\ (info.size = 96 /\ marginX = 64) <=> (W > 1024 /\ H > 1024)
            /\ (info.size = 48 /\ marginX = 32) <=> ~(W > 1024 /\ H > 1024)
            /\ marginY = marginX
            /\ info.width = info.size /\ info.height = info.size

\* C1's case: exactly one dimension exceeds 1024, the other is too small for
\* the region, which then starts at a negative y
C1_Witness ==
    /\ loc.called
    /\ loc.width > 1024 /\ loc.height = 47
    /\ loc.info.size = 48 /\ loc.info.y = -33 /\ loc.info.x = loc.width - 80

\* invocation i has handed the encoded canvas to onProcessed
Finished(i) == pc[i] = "done" /\ result[i].kind = "png"

\* the byte j of a picture `width` wide belongs to a pixel of the region
InRegion(info, width, j) ==
    LET row == (j \div 4) \div width
        col == (j \div 4) % width
    IN  /\ row >= info.y /\ row < info.y + info.height
        /\ col >= info.x /\ col < info.x + info.width

\* the picture invocation i loaded holds the whole region
Fits(i) == local[i].info.x >= 0 /\ local[i].info.y >= 0

\* the bytes of the loaded picture that belong to the region
RegionBytes(i) == { j \in DOMAIN imageSrc.data : InRegion(local[i].info, imageSrc.width, j) }

\* C2: process() with method 'blur' leaves every pixel outside the Locator
\* region as the loaded image has it, whatever the image and the blurRadius.
C2_BlurKeepsOutside ==
    \A i \in Calls :
        (Finished(i) /\ settings.method = "blur") =>
            /\ result[i].width = imageSrc.width /\ result[i].height = imageSrc.height
            /\ \A j \in DOMAIN imageSrc.data \ RegionBytes(i) :
                   result[i].data[j] = imageSrc.data[j]

\* C2's case: a blur that changed a pixel of the region of a picture that has
\* pixels outside the region too
C2_Witness ==
    /\ Finished(1) /\ settings.method = "blur"
    /\ \E j \in RegionBytes(1) : result[1].data[j] # imageSrc.data[j]
    /\ DOMAIN imageSrc.data \ RegionBytes(1) # {}

\* C3: process() with method 'fill' and opacity 1.0 makes every pixel inside
\* the Locator region exactly coverColor, opaque, and leaves every pixel
\* outside the region as the loaded image has it.
C3_FillExact ==
    \A i \in Calls :
        (Finished(i) /\ settings.method = "fill" /\ settings.opacity = 100) =>
            \A j \in DOMAIN imageSrc.data :
                result[i].data[j] =
                    IF ~InRegion(local[i].info, imageSrc.width, j) THEN imageSrc.data[j]
                    ELSE IF j % 4 = 3 THEN 255
                    ELSE settings.coverColor[(j % 4) + 1]

\* C3's case: an opaque fill over a region whose pixels had another colour, in
\* a picture that has pixels outside the region too
C3_Witness ==
    /\ Finished(1) /\ settings.method = "fill" /\ settings.opacity = 100
    /\ \E j \in RegionBytes(1) : j % 4 # 3 /\ imageSrc.data[j] # settings.coverColor[(j % 4) + 1]
    /\ DOMAIN imageSrc.data \ RegionBytes(1) # {}

\* the bytes at imgIdx are those of a masked pixel of the region
ReadsMasked(mask, position, canvasWidth, canvasHeight, imgIdx) ==
    LET pixel == imgIdx \div 4
        row == (pixel \div canvasWidth) - position.y
        col == (pixel % canvasWidth) - position.x
    IN  /\ imgIdx >= 0 /\ imgIdx < 4 * canvasWidth * canvasHeight
        /\ row >= 0 /\ row < position.height /\ col >= 0 /\ col < position.width
        /\ mask[row * position.width + col]

\* C4: for every masked target pixel, no sample added to the weighted sum is
\* a pixel of the masked set (the target itself included): the bytes of every
\* contributing sample are those of a pixel outside the region or of an
\* unmasked pixel inside it.
C4_NoMaskedSample ==
    \A i \in Calls :
        (Finished(i) /\ local[i].alpha.ok) =>
            LET l == local[i]
                mask == BuildMask(l.alpha.map, l.info.width, l.info.height)
            IN  \A k \in DOMAIN mask :
                    mask[k] =>
                        LET samples == Samples(mask, l.info, l.width, l.height,
                                               k \div l.info.width, k % l.info.width)
                        IN  \A n \in 1..Len(samples) :
                                ~ReadsMasked(mask, l.info, l.width, l.height, samples[n].imgIdx)

\* C5: 'remove' inverts the alpha blend: where the loaded picture holds the
\* whole region and is the logo blended over `original` with every opacity
\* below 0.99, the result of a call that ran alone is within 1 of `original`
\* in every channel of every pixel of the region.
C5_RecoversOriginal ==
    \A i \in Calls :
        (/\ Finished(i) /\ settings.method = "remove" /\ local[i].alpha.ok /\ Fits(i)
         /\ \A other \in Calls \ {i} : pc[other] = "idle"
         /\ \A k \in DOMAIN local[i].alpha.map : 100 * local[i].alpha.map[k] < 99 * 255) =>
            \A j \in RegionBytes(i) : Abs(result[i].data[j] - original.data[j]) <= 1

\* what invocation i hands to onProcessed when it runs alone: the selected
\* method applied once to the freshly loaded source
Alone(i) ==
    LET drawn == [width |-> imageSrc.width, height |-> imageSrc.height, data |-> imageSrc.data]
        l == local[i]
    IN  toDataURL(IF settings.method = "blur" THEN ProcessBlur(drawn, l.info, settings)
                  ELSE IF settings.method = "fill" THEN ProcessFill(drawn, l.info, settings)
                  ELSE TryAlphaGuided(drawn, l.width, l.height, l.info, l.alpha, l.rand).canvas)

\* C6: two overlapping invocations do not interfere: once both have finished
\* with a picture that holds the whole region, each has handed to onProcessed
\* what it would have handed had it run alone.
C6_NoInterference ==
    (Finished(1) /\ Finished(2) /\ Fits(1) /\ Fits(2)) =>
        \A i \in Calls : result[i] = Alone(i)

C8_MismatchFails ==
    \A i \in Calls :
        (/\ Finished(i) /\ settings.method \in {"remove", "inpaint"}
         /\ \/ Asset(local[i].info.size).width # local[i].info.size
            \/ Asset(local[i].info.size).height # local[i].info.size) =>
            ~local[i].alpha.ok /\ ran[i] = <<"inpaint">>

\* C9: the alpha map a call obtained has region.width * region.height
\* entries; entry k is the greatest of the R, G and B bytes of pixel k of the
\* reference buffer (its alpha byte plays no part), a numerator over 255
\* within 0..255.
C9_AlphaMapIsMax ==
    \A i \in Calls :
        local[i].alpha.ok =>
            LET size == local[i].info.size
                buffer == DrawScaled(Asset(size), size).data
                map == local[i].alpha.map
            IN  /\ DOMAIN map = 0..(local[i].info.width * local[i].info.height - 1)
                /\ \A k \in DOMAIN map :
                       /\ map[k] \in {buffer[4 * k], buffer[4 * k + 1], buffer[4 * k + 2]}
                       /\ map[k] >= buffer[4 * k] /\ map[k] >= buffer[4 * k + 1]
                       /\ map[k] >= buffer[4 * k + 2]
                       /\ map[k] >= 0 /\ map[k] <= 255

\* C9's case: a call obtained a map with an entry that is the greatest of
\* three different bytes and differs from the pixel's alpha byte
C9_Witness ==
    /\ local[1].alpha.ok
    /\ LET size == local[1].info.size
           buffer == DrawScaled(Asset(size), size).data
       IN  \E k \in DOMAIN local[1].alpha.map :
               /\ buffer[4 * k] < buffer[4 * k + 1] /\ buffer[4 * k + 2] < buffer[4 * k]
               /\ local[1].alpha.map[k] = buffer[4 * k + 1]
               /\ buffer[4 * k + 3] # buffer[4 * k + 1]

\* the summed absolute difference of two buffers in channel c
Change(a, b, c) == SumRange(LAMBDA p : Abs(a[4 * p + c] - b[4 * p + c]), 0, bb.w * bb.h - 1)

\* the bytes of channel c in a buffer
Channel(data, c) == { data[i] : i \in { j \in DOMAIN data : j % 4 = c } }

\* every byte of channel c in `after` lies between two bytes of that channel in `before`
WithinRange(before, after) ==
    \A c \in 0..3 : \A v \in Channel(after, c) :
        /\ \E lo \in Channel(before, c) : lo <= v
        /\ \E hi \in Channel(before, c) : v <= hi

\* C10 as stated: in every channel the second application of applyBoxBlur
\* changes the region by less (summed over its pixels) than the first did.
C10_SecondChangesLess ==
    bb.stage = 2 =>
        \A c \in 0..3 : Change(bb.first, bb.second, c) < Change(bb.before, bb.first, c)

\* C10 amended: no application of applyBoxBlur widens a channel's range of
\* values over the region: every byte it writes lies between the least and
\* the greatest byte that channel had in the region before that application
\* (so a region uniform in a channel keeps it).
C10_RangeNeverWidens ==
    /\ bb.stage >= 1 => WithinRange(bb.before, bb.first)
    /\ bb.stage = 2 => WithinRange(bb.first, bb.second)

\* C10's case: both applications done; in some channel the first changed the
\* region and the second changed it by more than the first
C10_Witness ==
    /\ bb.stage = 2
    /\ \E c \in 0..3 :
           /\ Change(bb.before, bb.first, c) > 0
           /\ Change(bb.first, bb.second, c) > Change(bb.before, bb.first, c)

\* invocation i is the only one that has started
Solo(i) == \A other \in Calls \ {i} : pc[other] = "idle"

\* the loaded picture as loadImageToCanvas leaves it on the canvas
Drawn == [width |-> imageSrc.width, height |-> imageSrc.height, data |-> imageSrc.data]

\* the border samples of invocation i's region
BorderOf(i) ==
    BorderPixels(local[i].info.x, local[i].info.y, local[i].info.width, local[i].info.height,
                 local[i].width, local[i].height)

\* invocation i ran alone and its inpainter filled the region
Inpainted(i) == Finished(i) /\ Solo(i) /\ ran[i] = <<"inpaint">> /\ BorderOf(i) # {}

\* the buffer invocation i's inpainter wrote before its blur
FillOf(i) ==
    InpaintFill(Drawn, local[i].info.x, local[i].info.y, local[i].info.width,
                local[i].info.height, local[i].width, local[i].height, local[i].rand)

\* the byte of channel c the inpainter writes where the noise is zero: the border mean
MeanByte(i, c) == ToUint8Clamped(BorderSum(Drawn, BorderOf(i), c), Cardinality(BorderOf(i)))

\* min(px, w - px, py, h - py) for the k-th pixel of invocation i's region
EdgeDistance(i, k) ==
    LET w == local[i].info.width
        h == local[i].info.height
    IN  Min2(Min2(k % w, w - (k % w)), Min2(k \div w, h - (k \div w)))

\* the written byte is within bound/den (and half a unit of rounding) of the border mean
NoiseWithin(i, k, c, bound, den) ==
    LET len == Cardinality(BorderOf(i))
    IN  2 * den * Abs(FillOf(i)[4 * k + c] * len - BorderSum(Drawn, BorderOf(i), c))
            <= 2 * bound * len + den * len

\* C11 as stated: the inpainter's noise is at most +/-6 per channel,
\* strongest on the region's boundary, and zero at the region's centre.
C11_ZeroAtCentre ==
    \A i \in Calls :
        Inpainted(i) =>
            LET w == local[i].info.width
                centre == (local[i].info.height \div 2) * w + (w \div 2)
            IN  /\ \A k \in 0..(w * local[i].info.height - 1) :
                       \A c \in 0..2 : NoiseWithin(i, k, c, 6, 1)
                /\ \A c \in 0..2 : FillOf(i)[4 * centre + c] = MeanByte(i, c)

\* C11 amended: the noise is at most +/-6 per channel scaled by
\* min(1, d / (min(w, h) / 2)), d = min(px, w - px, py, h - py): zero in the
\* region's first row and first column, where the border mean is written as
\* it is, and growing with d to the full +/-6 where d reaches half of min(w, h).
C11_NoiseGrowsInward ==
    \A i \in Calls :
        Inpainted(i) =>
            LET w == local[i].info.width
                h == local[i].info.height
            IN  \A k \in 0..(w * h - 1) : \A c \in 0..2 :
                    /\ NoiseWithin(i, k, c, 6 * Min2(2 * EdgeDistance(i, k), Min2(w, h)), Min2(w, h))
                    /\ EdgeDistance(i, k) = 0 => FillOf(i)[4 * k + c] = MeanByte(i, c)
                    /\ FillOf(i)[4 * k + 3] = 255

\* C11's case: an inpainter that drew a random number other than 1/2 for a
\* pixel of the first row, which got the border mean all the same, and wrote
\* another byte than the mean further inside
C11_Witness ==
    /\ Inpainted(1)
    /\ \E k \in 0..(local[1].info.width - 1) :
           /\ 2 * local[1].rand[k] # RAND_DEN
           /\ FillOf(1)[4 * k] = MeanByte(1, 0)
    /\ \E k \in DOMAIN local[1].rand :
           EdgeDistance(1, k) > 0 /\ FillOf(1)[4 * k] # MeanByte(1, 0)

\* invocation i ran alone and its neighbour sampling ran
Sampled(i) == Finished(i) /\ Solo(i) /\ local[i].alpha.ok

\* the mask invocation i built
MaskOf(i) == BuildMask(local[i].alpha.map, local[i].info.width, local[i].info.height)

RECURSIVE RemoveFromSnapshot(_, _, _, _, _, _, _)
\* the loop of lines 323-375 from the k-th pixel on, had every sample been read
\* from `snapshot`, the buffer as it was when the pass began
RemoveFromSnapshot(snapshot, data, mask, position, canvasWidth, canvasHeight, k) ==
    LET w == position.width
        row == k \div w
        col == k % w
        samples == Samples(mask, position, canvasWidth, canvasHeight, row, col)
        imgIdx == ((position.y + row) * canvasWidth + (position.x + col)) * 4
    IN  IF k >= w * position.height THEN data
        ELSE IF ~mask[k] \/ Len(samples) = 0
             THEN RemoveFromSnapshot(snapshot, data, mask, position, canvasWidth, canvasHeight, k + 1)
             ELSE RemoveFromSnapshot(snapshot,
                                     WritePixel(data, imgIdx,
                                                Reconstructed(snapshot, samples, 0),
                                                Reconstructed(snapshot, samples, 1),
                                                Reconstructed(snapshot, samples, 2)),
                                     mask, position, canvasWidth, canvasHeight, k + 1)

\* C12: in the neighbour-sampling pass every output pixel depends only on the
\* pixel values as they were when the pass began: the pass gives what it
\* would give had every sample been read from a snapshot taken at its start.
C12_SnapshotOnly ==
    \A i \in Calls :
        Sampled(i) =>
            removeWatermarkWithAlphaMap(Drawn.data, local[i].alpha.map, local[i].info,
                                        local[i].width, local[i].height)
              = RemoveFromSnapshot(Drawn.data, Drawn.data, MaskOf(i), local[i].info,
                                   local[i].width, local[i].height, 0)

\* the buffer invocation i's neighbour sampling left, before the smoothing blur
RemovedOf(i) ==
    removeWatermarkWithAlphaMap(Drawn.data, local[i].alpha.map, local[i].info,
                                local[i].width, local[i].height)

\* the byte j of the picture belongs to a masked pixel of invocation i's region
MaskedByte(i, j) ==
    LET row == ((j \div 4) \div local[i].width) - local[i].info.y
        col == ((j \div 4) % local[i].width) - local[i].info.x
    IN  /\ InRegion(local[i].info, local[i].width, j)
        /\ MaskOf(i)[row * local[i].info.width + col]

\* C13: removeWatermarkWithAlphaMap changes only R, G and B bytes of pixels
\* inside the region whose opacity exceeds 0.05: unmasked pixels, pixels
\* outside the region and alpha bytes keep their values, and so does a masked
\* pixel for which no sample was collected.
C13_OnlyMaskedColour ==
    \A i \in Calls :
        Sampled(i) =>
            \A j \in DOMAIN Drawn.data :
                RemovedOf(i)[j] # Drawn.data[j] =>
                    /\ j % 4 # 3
                    /\ MaskedByte(i, j)
                    /\ LET k == (((j \div 4) \div local[i].width) - local[i].info.y) * local[i].info.width
                                  + ((j \div 4) % local[i].width) - local[i].info.x
                       IN  Samples(MaskOf(i), local[i].info, local[i].width, local[i].height,
                                   k \div local[i].info.width, k % local[i].info.width) # <<>>

\* the samples invocation i collected for the k-th pixel of its region
SamplesOf(i, k) ==
    Samples(MaskOf(i), local[i].info, local[i].width, local[i].height,
            k \div local[i].info.width, k % local[i].info.width)

\* the masked pixels of invocation i's region
TargetsOf(i) == { k \in DOMAIN MaskOf(i) : MaskOf(i)[k] }

\* the samples of a sequence that were added in a ring below `radius`
RingsBelow(samples, radius) == SelectSeq(samples, LAMBDA it : it.radius < radius)

\* C14 as stated: the rings are visited in increasing order up to
\* max(width, height) + 8 and no sample is added to the weighted sum once
\* the accumulated weight is 8 or more.
C14_NoneAfterEight ==
    \A i \in Calls :
        Sampled(i) =>
            \A k \in TargetsOf(i) :
                LET samples == SamplesOf(i, k) IN
                \A n \in 1..Len(samples) :
                    /\ samples[n].radius >= 1
                    /\ samples[n].radius <= Max2(local[i].info.width, local[i].info.height) + 8
                    /\ n > 1 => samples[n - 1].radius <= samples[n].radius
                    /\ WeightBelow(SubSeq(samples, 1, n - 1), 8)

\* C14 amended: the rings are visited in increasing order up to
\* max(width, height) + 8 and no ring is begun once the accumulated weight is
\* 8 or more: every sample belongs to a ring before which the weight was
\* below 8 (the ring in which the weight reaches 8 is still completed).
C14_NoRingAfterEight ==
    \A i \in Calls :
        Sampled(i) =>
            \A k \in TargetsOf(i) :
                LET samples == SamplesOf(i, k) IN
                \A n \in 1..Len(samples) :
                    /\ samples[n].radius >= 1
                    /\ samples[n].radius <= Max2(local[i].info.width, local[i].info.height) + 8
                    /\ n > 1 => samples[n - 1].radius <= samples[n].radius
                    /\ WeightBelow(RingsBelow(samples, samples[n].radius), 8)

\* C14's case: a target whose search went past the first ring and ended in a
\* ring that added a sample when the accumulated weight was 8 or more already
C14_Witness ==
    /\ Sampled(1)
    /\ \E k \in TargetsOf(1) :
           LET samples == SamplesOf(1, k) IN
           /\ samples # <<>>
           /\ samples[Len(samples)].radius > 1
           /\ ~WeightBelow(SubSeq(samples, 1, Len(samples) - 1), 8)

\* C15: every invocation of process() that has ended has called onProcessed:
\* with imageSrc and no strategy run when the image failed to load, otherwise
\* with the encoded canvas after its method has run.
C15_AlwaysReports ==
    \A i \in Calls :
        pc[i] \in {"done", "returned"} =>
            /\ result[i].kind \in {"src", "png"}
            /\ result[i].kind = "src" => (ran[i] = <<>> /\ result[i] = SrcUrl)
            /\ result[i].kind = "png" => ran[i] # <<>>

\* the region of SpecCore's input lies on its canvas
CoreFits ==
    /\ core.position.x >= 0 /\ core.position.x + core.position.width <= core.cv.width
    /\ core.position.y >= 0 /\ core.position.y + core.position.height <= core.cv.height

\* the samples the reconstructor of SpecCore takes for the k-th region pixel
CoreSamples(k) ==
    Samples(BuildMask(core.alphaMap, core.position.width, core.position.height),
            core.position, core.cv.width, core.cv.height,
            k \div core.position.width, k % core.position.width)

\* the masked pixels of SpecCore's region
CoreTargets ==
    { k \in 0..(core.position.width * core.position.height - 1) :
        BuildMask(core.alphaMap, core.position.width, core.position.height)[k] }

\* the index of the k-th region pixel's first byte in the image data
CoreImgIdx(k) ==
    ((core.position.y + (k \div core.position.width)) * core.cv.width
        + core.position.x + (k % core.position.width)) * 4

\* C16: no core operation divides by zero: every sample the reconstructor
\* weighs by 1/distance^2 is at a distance above 0; a masked pixel whose
\* accumulated weight is 0 (no sample) gets no weighted average and keeps its
\* bytes; the box blur's count is above 0; the inpainter computes no border
\* mean over an empty sample set and leaves the canvas as it is.
C16_NoDivisionByZero ==
    core.stage = 1 =>
        /\ core.op = "remove" =>
               \A k \in CoreTargets :
                   /\ \A n \in 1..Len(CoreSamples(k)) : CoreSamples(k)[n].d2 > 0
                   /\ (CoreFits /\ CoreSamples(k) = <<>>) =>
                          \A c \in 0..2 : core.out[CoreImgIdx(k) + c] = core.cv.data[CoreImgIdx(k) + c]
        /\ core.op = "blur" => BlurCount(BlurRadius(core.radius, core.passes)) > 0
        /\ core.op = "inpaint" =>
               (BorderPixels(core.position.x, core.position.y, core.position.width,
                             core.position.height, core.cv.width, core.cv.height) = {}
                    => core.out = core.cv.data)

\* C16 witness: the reconstructor has run over a region on the canvas in which
\* a masked pixel found no sample at all.
C16_Witness ==
    /\ core.stage = 1 /\ core.op = "remove" /\ CoreFits
    /\ \E k \in CoreTargets : CoreSamples(k) = <<>>


\* the index imgIdx lies within the image data of a canvasWidth x canvasHeight
\* canvas and is that of the pixel (absRow, absCol)
Addresses(imgIdx, absRow, absCol, canvasWidth, canvasHeight) ==
    /\ imgIdx >= 0 /\ imgIdx + 3 < 4 * canvasWidth * canvasHeight
    /\ (imgIdx \div 4) \div canvasWidth = absRow
    /\ (imgIdx \div 4) % canvasWidth = absCol

\* C17: for every picture size, the undersized ones included, every index
\* removeWatermarkWithAlphaMap reads a sample at or writes a reconstructed
\* pixel at lies within the image data and addresses the pixel at the intended
\* row and column of the canvas.
C17_IndicesAddressIntended ==
    \A i \in Calls :
        Sampled(i) =>
            \A k \in TargetsOf(i) :
                LET info == local[i].info
                    samples == SamplesOf(i, k)
                IN  /\ \A n \in 1..Len(samples) :
                           Addresses(samples[n].imgIdx, info.y + samples[n].sRow,
                                     info.x + samples[n].sCol, local[i].width, local[i].height)
                    /\ samples # <<>> =>
                           Addresses(((info.y + (k \div info.width)) * local[i].width
                                         + info.x + (k % info.width)) * 4,
                                     info.y + (k \div info.width), info.x + (k % info.width),
                                     local[i].width, local[i].height)

\* C18: loadAlphaMap begins with the fetch; it rejects only after the direct
\* crossOrigin load was attempted as well, whatever made the fetch-as-blob
\* path fail; and no blob URL it created is left unrevoked when it settles.
C18_FallsBackBeforeFailing ==
    /\ alphaLoad.started[1] = "fetch"
    /\ alphaLoad.outcome = "rejected" => alphaLoad.started = <<"fetch", "direct">>
    /\ alphaLoad.pc = "settled" => alphaLoad.blobUrl # "live"

\* the strategies of loadImageToCanvas for a src, in the order of the claim
StrategyOrder(src) ==
    IF src = "data" THEN <<"direct", "fetch">> ELSE <<"direct", "retry", "fetch">>

\* C19: loadImageToCanvas begins its strategies in the order direct load,
\* retry without crossOrigin (non-data URLs only), fetch-as-blob, each one
\* only after the one before it failed; it resolves on the first success with
\* the canvas sized to and holding the image, rejects only after the last
\* strategy failed, and calls resolve or reject once in all, which is when it
\* has settled.
C19_StrategiesInOrder ==
    LET order == StrategyOrder(imageLoad.src)
        started == imageLoad.started
        failed == imageLoad.failed
    IN  /\ Len(started) <= Len(order) /\ started = SubSeq(order, 1, Len(started))
        /\ Len(failed) <= Len(started) /\ failed = SubSeq(started, 1, Len(failed))
        /\ Len(failed) >= Len(started) - 1
        /\ imageLoad.resolves + imageLoad.rejects <= 1
        /\ imageLoad.pc = "settled" <=> imageLoad.resolves + imageLoad.rejects = 1
        /\ imageLoad.resolves = 1 =>
               /\ Len(failed) = Len(started) - 1
               /\ imageLoad.canvas = [width |-> imageLoad.img.width, height |-> imageLoad.img.height,
                                      data |-> imageLoad.img.data]
        /\ imageLoad.rejects = 1 => failed = order
        /\ imageLoad.pc = "settled" => imageLoad.blobUrl # "live"

\* C19 witness: a non-data src whose direct load and retry failed and whose
\* fetch-as-blob succeeded: the promise is resolved and the canvas holds the image.
C19_Witness ==
    /\ imageLoad.pc = "settled" /\ imageLoad.src = "http"
    /\ imageLoad.resolves = 1
    /\ imageLoad.failed = <<"direct", "retry">>
    /\ imageLoad.started = <<"direct", "retry", "fetch">>
    /\ imageLoad.canvas.width = imageLoad.img.width /\ imageLoad.canvas.width > 0

============================================================================
